---- MODULE Spec2Model ----
(***************************************************************************)
(* Model of the staff time-clock, the patrol ledger, the defect log, the    *)
(* invoice ledger, job signup and the passwords of backend/server.py: the  *)
(* employees, jobs, timeclock, checkpoints, patrol_checkins, defects,      *)
(* invoices and users collections of the document store, the wall clock,   *)
(* and the request handlers that read and write them.                      *)
(*                                                                         *)
(* Every `await db....` of a handler is one atomic store operation; the    *)
(* code between two awaits touches only the handler's locals.  SeqSpec     *)
(* runs each handler to completion before the next request (one action per *)
(* handler); Spec runs clock-in and clock-out one store operation at a     *)
(* time, so that two requests interleave as they do on the event loop.     *)
(*                                                                         *)
(* Abstractions:                                                           *)
(*  - Optional[T] is a sequence of length <= 1: None is <<>>, a value v is *)
(*    <<v>>.                                                               *)
(*  - Coordinates are metres north/east of a reference point instead of    *)
(*    degrees, and haversine_distance is the distance between them rounded *)
(*    up to a whole metre (d > 500 iff ceil(d) > 500, so the comparison    *)
(*    with the whole-metre radius is exact).                               *)
(*  - Instants are seconds since the epoch; the wall clock takes values in *)
(*    Times and may be set back (datetime.now is not monotonic).           *)
(*  - uuid4 ids are fresh names handed out in a fixed order; a session's   *)
(*    id is its position in the collection (sessions are never removed).   *)
(*  - Denormalised display fields (names, phone, notes, the echoed request *)
(*    coordinates of a session) are left out: no handler branches on them. *)
(***************************************************************************)
EXTENDS Integers, Sequences, FiniteSets, TLC

VARIABLES
    employees,    \* db.employees: the set of stored employee ids
    jobs,         \* db.jobs: stored job id -> job document
    timeclock,    \* db.timeclock: sequence of session documents, insertion order
    uuids,        \* how many employee / job ids have been generated so far
    now,          \* the wall clock (seconds)
    resp,         \* the response to the request answered last
    pc,           \* Spec only: each in-flight handler's position
    loc,          \* Spec only: each in-flight handler's locals
    checkpoints,      \* db.checkpoints: sequence of checkpoint documents
    patrol_checkins,  \* db.patrol_checkins: sequence of check-in documents
    defects,          \* db.defects: sequence of defect documents
    body,         \* the JSON body the patrol request served last returned
    invoices,         \* db.invoices: sequence of invoice documents, insertion order
    invoice_uuids,    \* how many invoice ids have been generated so far
    users,            \* db.users: stored user id -> user document
    password_hash     \* db.employees: employee id -> password_hash, where one is set

\* The collections of the patrol and defect endpoints, and what they return.
patrol == <<checkpoints, patrol_checkins, defects, body>>

\* The invoice ledger and the credentials, which the handlers of the other
\* sections never touch.
office == <<invoices, invoice_uuids, users, password_hash>>

vars == <<employees, jobs, timeclock, uuids, now, resp, pc, loc, patrol, office>>

----------------------------------------------------------------------------
(* Bounds *)

MaxSessions == 2

MaxTick == 2

----------------------------------------------------------------------------
(* Values *)

None == <<>>

Some(v) == <<v>>

EmployeeIdSeq == <<"e1", "e2">>

JobIdSeq == <<"j1", "j2">>

EmployeeIds == {EmployeeIdSeq[i] : i \in 1..Len(EmployeeIdSeq)}

JobIds == {JobIdSeq[i] : i \in 1..Len(JobIdSeq)}

Procs == {"p1", "p2"}

SecondsPerDay == 86400

\* Clock readings: 00:00 and 00:30 of successive UTC days.
TimeOf(k) == (k \div 2) * SecondsPerDay + (k % 2) * 1800

Times == {TimeOf(k) : k \in 0..MaxTick}

\* Coordinates a request may carry: none, latitude only, the job's own position,
\* a point exactly 500 m away (300 north, 400 east) and a point 501 m away.
RequestCoordinates ==
    { <<None, None>>, <<Some(0), None>>, <<Some(0), Some(0)>>,
      <<Some(300), Some(400)>>, <<Some(501), Some(0)>> }

\* Coordinates an administrator may store on a job.
JobLatitudes == {None, Some(0)}

JobLongitudes == {None, Some(0)}

MAX_CLOCK_DISTANCE_METERS == 500

----------------------------------------------------------------------------
(* Pure functions *)

RECURSIVE CeilSqrtBetween(_, _, _)
\* The least r in lo..hi with r * r >= n, by bisection (hi * hi >= n).
CeilSqrtBetween(n, lo, hi) ==
    IF lo >= hi THEN hi
    ELSE LET mid == (lo + hi) \div 2
         IN  IF mid * mid >= n
             THEN CeilSqrtBetween(n, lo, mid)
             ELSE CeilSqrtBetween(n, mid + 1, hi)

\* 46340 is the largest root whose square is a 32-bit integer.
CeilSqrt(n) == CeilSqrtBetween(n, 0, 46340)

haversine_distance(lat1, lon1, lat2, lon2) ==
    CeilSqrt((lat2 - lat1) * (lat2 - lat1) + (lon2 - lon1) * (lon2 - lon1))

\* datetime.strftime("%Y-%m-%d"): the UTC calendar day of an instant.
Date(t) == t \div SecondsPerDay

\* round(seconds / 3600, 2), in hundredths of an hour (round-half-even).
Round2Hours(seconds) ==
    LET q == (seconds * 100) \div 3600
        r == (seconds * 100) % 3600
    IN  IF 2 * r < 3600 THEN q
        ELSE IF 2 * r > 3600 THEN q + 1
        ELSE IF q % 2 = 0 THEN q ELSE q + 1

----------------------------------------------------------------------------
(* Responses: the HTTP status and the detail / message of the body *)

\* distance is the "Current distance: {int(distance)}m" of an out-of-range detail.
Reply(status, detail) == [status |-> status, detail |-> detail, distance |-> None]

NoResponse == Reply(0, "")

EmployeeNotFound == Reply(404, "Employee not found")

JobNotFound == Reply(404, "Job not found")

NotAssigned == Reply(403, "You are not assigned to this job")

MisconfiguredGeofence ==
    Reply(400, "Job requires location verification but GPS not configured. Contact admin.")

LocationRequiredIn ==
    Reply(400, "This job requires GPS location to clock in. Please enable location services.")

OutOfRangeIn(distance) ==
    [Reply(403, "You must be within 500m of the job location to clock in.")
        EXCEPT !.distance = Some(distance)]

AlreadyClockedIn == Reply(400, "Already clocked in for this job today")

ClockedIn == Reply(200, "Clocked in successfully")

NoOpenSession == Reply(400, "No active clock-in found")

LocationRequiredOut ==
    Reply(400, "This job requires GPS location to clock out. Please enable location services.")

OutOfRangeOut(distance) ==
    [Reply(403, "You must be within 500m of the job location to clock out.")
        EXCEPT !.distance = Some(distance)]

\* An exception no handler catches: the framework answers 500.
InternalServerError == Reply(500, "Internal Server Error")

ClockedOut == Reply(200, "Clocked out successfully")

\* The requests of the other endpoints are recorded by their status alone.
Ok == Reply(200, "ok")

\* No patrol request has been served yet.
NoBody == [kind |-> "none"]

----------------------------------------------------------------------------
(* The handlers' decisions, as functions of what they read *)

\* [e.get('employee_id') for e in job.get('assigned_employees', [])]
assigned_ids(job) == {job.assigned_employees[i] : i \in 1..Len(job.assigned_employees)}

\* What staff_clock_in's checks between the job lookup and the open-session
\* lookup decide: err is the HTTPException raised, None when the request passes.
Passed(verified) == [err |-> None, location_verified |-> verified]

Refused(r) == [err |-> Some(r), location_verified |-> FALSE]

\* DistanceCheck with an exclusive boundary (>= instead of >).
DistanceCheck_ExclusiveBoundary(job, lat, lon) ==
    IF lat = None \/ lon = None
    THEN Refused(LocationRequiredIn)
    ELSE LET distance == haversine_distance(lat[1], lon[1], job.latitude[1], job.longitude[1])
         IN  IF distance >= MAX_CLOCK_DISTANCE_METERS
             THEN Refused(OutOfRangeIn(distance))
             ELSE Passed(TRUE)

\* DistanceCheck reading a missing request coordinate as 0 (`request.latitude or 0`).
DistanceCheck_MissingAsZero(job, lat, lon) ==
    LET distance == haversine_distance(IF lat = None THEN 0 ELSE lat[1],
                                       IF lon = None THEN 0 ELSE lon[1],
                                       job.latitude[1], job.longitude[1])
    IN  IF distance > MAX_CLOCK_DISTANCE_METERS
        THEN Refused(OutOfRangeIn(distance))
        ELSE Passed(TRUE)

\* The request's coordinates against the job's, for a job that has both.
DistanceCheck(job, lat, lon) ==
    IF lat = None \/ lon = None
    THEN Refused(LocationRequiredIn)
    ELSE LET distance == haversine_distance(lat[1], lon[1], job.latitude[1], job.longitude[1])
         IN  IF distance > MAX_CLOCK_DISTANCE_METERS
             THEN Refused(OutOfRangeIn(distance))
             ELSE Passed(TRUE)

\* Geofence gating every job, whatever its require_location.
Geofence_IgnoresFlag(job, lat, lon) ==
    IF job.latitude = None \/ job.longitude = None
    THEN Refused(MisconfiguredGeofence)
    ELSE DistanceCheck(job, lat, lon)

\* Geofence looking at the request's coordinates before the job's.
Geofence_RequestFirst(job, lat, lon) ==
    IF job.require_location
    THEN IF lat = None \/ lon = None
         THEN Refused(LocationRequiredIn)
         ELSE IF job.latitude = None \/ job.longitude = None
         THEN Refused(MisconfiguredGeofence)
         ELSE DistanceCheck(job, lat, lon)
    ELSE Passed(FALSE)

\* "Check if location verification is required for this job"
Geofence(job, lat, lon) ==
    IF job.require_location
    THEN IF job.latitude = None \/ job.longitude = None
         THEN Refused(MisconfiguredGeofence)
         ELSE DistanceCheck(job, lat, lon)
    ELSE Passed(FALSE)

\* ClockInChecks without the assignment check.
ClockInChecks_NoAssignment(job, e, lat, lon) == Geofence(job, lat, lon)

\* "Check if employee is assigned to this job", then the geofence.
ClockInChecks(job, e, lat, lon) ==
    IF e \notin assigned_ids(job)
    THEN Refused(NotAssigned)
    ELSE Geofence(job, lat, lon)

\* The filter of staff_clock_in's find_one.
ClockInFilter(s, e, j, today) ==
    /\ s.employee_id = e
    /\ s.job_id = j
    /\ s.date = today
    /\ s.clock_out = None

\* `existing`: whether the find_one of staff_clock_in returns a document.
ExistingClockIn(tc, e, j, today) ==
    \E i \in 1..Len(tc) : ClockInFilter(tc[i], e, j, today)

\* The document staff_clock_in inserts.
ClockInEntry(id, e, j, today, t, verified) ==
    [id |-> id, employee_id |-> e, job_id |-> j, date |-> today,
     clock_in |-> t, clock_out |-> None, hours_worked |-> None,
     location_verified |-> verified]

\* OpenFilter without the employee_id key: any open session matches.
OpenFilter_AnyEmployee(s, e) == s.clock_out = None

\* The filter of the find_one of staff_clock_out and get_staff_clock_status.
OpenFilter(s, e) ==
    /\ s.employee_id = e
    /\ s.clock_out = None

\* find_one returns the first matching document in natural order; 0 is no match.
FindOpenEntry(tc, e) ==
    IF \E i \in 1..Len(tc) : OpenFilter(tc[i], e)
    THEN CHOOSE i \in 1..Len(tc) :
            /\ OpenFilter(tc[i], e)
            /\ \A k \in 1..(i - 1) : ~OpenFilter(tc[k], e)
    ELSE 0

\* ClockOutChecks refusing to close a session whose job is no longer stored.
ClockOutChecks_JobMustExist(jbs, j, lat, lon) ==
    IF j \notin DOMAIN jbs THEN Some(JobNotFound)
    ELSE IF jbs[j].require_location /\ lat = None THEN Some(LocationRequiredOut)
    ELSE None

\* staff_clock_out between the job lookup and the update.  `distance` is bound
\* only when the job has both coordinates, and is read whenever the job requires
\* location: reading it unbound raises UnboundLocalError.
ClockOutChecks(jbs, j, lat, lon) ==
    IF j \in DOMAIN jbs /\ jbs[j].require_location
    THEN IF jbs[j].latitude # None /\ jbs[j].longitude # None
         THEN IF lat = None \/ lon = None
              THEN Some(LocationRequiredOut)
              ELSE IF haversine_distance(lat[1], lon[1], jbs[j].latitude[1], jbs[j].longitude[1])
                        > MAX_CLOCK_DISTANCE_METERS
              THEN Some(OutOfRangeOut(haversine_distance(lat[1], lon[1], jbs[j].latitude[1],
                                                         jbs[j].longitude[1])))
              ELSE None
         ELSE Some(InternalServerError)
    ELSE None

\* hours_worked = round((now - clock_in_time).total_seconds() / 3600, 2)
HoursWorked(t, clock_in) == Round2Hours(t - clock_in)

\* update_one({"id": id}, {"$set": {clock_out, hours_worked, ...}})
ClockOutUpdate(tc, id, t, hours) ==
    [i \in 1..Len(tc) |->
        IF tc[i].id = id
        THEN [tc[i] EXCEPT !.clock_out = Some(t), !.hours_worked = Some(hours)]
        ELSE tc[i]]

\* get_staff_clock_status
is_clocked_in(tc, e) == FindOpenEntry(tc, e) # 0

----------------------------------------------------------------------------
(* State after construction: an empty store, no request in flight *)

IdleLocals ==
    [employee_id |-> "", job_id |-> "", latitude |-> None, longitude |-> None,
     today |-> 0, now |-> 0, location_verified |-> FALSE, entry |-> 0]

Init ==
    /\ employees = {}
    /\ jobs = << >>
    /\ timeclock = << >>
    /\ uuids = [employee |-> 0, job |-> 0]
    /\ now = 0
    /\ resp = NoResponse
    /\ pc = [p \in Procs |-> "idle"]
    /\ loc = [p \in Procs |-> IdleLocals]
    /\ checkpoints = << >>
    /\ patrol_checkins = << >>
    /\ defects = << >>
    /\ body = NoBody
    /\ invoices = << >>
    /\ invoice_uuids = 0
    /\ users = << >>
    /\ password_hash = << >>

\* What a handler of the other endpoints answers.
Answer(r) == resp' = r

----------------------------------------------------------------------------
(* The wall clock *)

\* Time passes.
Tick(t) ==
    /\ t \in Times /\ t > now
    /\ now' = t
    /\ UNCHANGED <<employees, jobs, timeclock, uuids, resp, pc, loc, patrol, office>>

\* The system clock is set back (an NTP step, an operator's correction).
ClockSetBack(t) ==
    /\ t \in Times /\ t < now
    /\ now' = t
    /\ UNCHANGED <<employees, jobs, timeclock, uuids, resp, pc, loc, patrol, office>>

----------------------------------------------------------------------------
(* Employee and job administration *)

create_employee(e) ==
    /\ uuids.employee < Len(EmployeeIdSeq)
    /\ e = EmployeeIdSeq[uuids.employee + 1]
    /\ uuids' = [uuids EXCEPT !.employee = @ + 1]
    /\ employees' = employees \cup {e}
    /\ Answer(Ok)
    /\ UNCHANGED <<jobs, timeclock, now, pc, loc, patrol, office>>

delete_employee(e) ==
    /\ employees' = employees \ {e}
    /\ Answer(IF e \in employees THEN Ok ELSE EmployeeNotFound)
    /\ UNCHANGED <<jobs, timeclock, uuids, now, pc, loc, patrol, office>>

create_job(j, require_location, latitude, longitude) ==
    /\ uuids.job < Len(JobIdSeq)
    /\ j = JobIdSeq[uuids.job + 1]
    /\ uuids' = [uuids EXCEPT !.job = @ + 1]
    /\ jobs' = jobs @@ (j :> [assigned_employees |-> << >>,
                              require_location |-> require_location,
                              latitude |-> latitude,
                              longitude |-> longitude])
    /\ Answer(Ok)
    /\ UNCHANGED <<employees, timeclock, now, pc, loc, patrol, office>>

\* update_data keeps the fields of the patch that are not None.
update_job(j, require_location, latitude, longitude) ==
    /\ jobs' = IF j \in DOMAIN jobs
               THEN [jobs EXCEPT ![j] =
                       [@ EXCEPT
                          !.require_location =
                              IF require_location = None THEN @ ELSE require_location[1],
                          !.latitude = IF latitude = None THEN @ ELSE latitude,
                          !.longitude = IF longitude = None THEN @ ELSE longitude]]
               ELSE jobs
    /\ Answer(IF j \in DOMAIN jobs THEN Ok ELSE JobNotFound)
    /\ UNCHANGED <<employees, timeclock, uuids, now, pc, loc, patrol, office>>

delete_job(j) ==
    /\ jobs' = [k \in DOMAIN jobs \ {j} |-> jobs[k]]
    /\ Answer(IF j \in DOMAIN jobs THEN Ok ELSE JobNotFound)
    /\ UNCHANGED <<employees, timeclock, uuids, now, pc, loc, patrol, office>>

\* The requested ids that are stored employees, in the order requested.
Assignable(employee_ids) == SelectSeq(employee_ids, LAMBDA e : e \in employees)

assign_employees_to_job(j, employee_ids) ==
    /\ jobs' = IF j \in DOMAIN jobs
               THEN [jobs EXCEPT ![j].assigned_employees = Assignable(employee_ids)]
               ELSE jobs
    /\ Answer(IF j \in DOMAIN jobs THEN Ok ELSE JobNotFound)
    /\ UNCHANGED <<employees, timeclock, uuids, now, pc, loc, patrol, office>>

\* {"$pull": {"assigned_employees": {"employee_id": employee_id}}}
staff_withdraw_from_job(e, j) ==
    /\ jobs' = IF j \in DOMAIN jobs
               THEN [jobs EXCEPT ![j].assigned_employees =
                        SelectSeq(@, LAMBDA a : a # e)]
               ELSE jobs
    /\ Answer(IF j \in DOMAIN jobs THEN Ok ELSE JobNotFound)
    /\ UNCHANGED <<employees, timeclock, uuids, now, pc, loc, patrol, office>>

----------------------------------------------------------------------------
(* Clock-in and clock-out, each run to completion *)

AllIdle == \A p \in Procs : pc[p] = "idle"

ClockInOutcome(e, j, lat, lon) ==
    IF e \notin employees THEN EmployeeNotFound
    ELSE IF j \notin DOMAIN jobs THEN JobNotFound
    ELSE IF ClockInChecks(jobs[j], e, lat, lon).err # None
    THEN ClockInChecks(jobs[j], e, lat, lon).err[1]
    ELSE IF ExistingClockIn(timeclock, e, j, Date(now)) THEN AlreadyClockedIn
    ELSE ClockedIn

\* staff_clock_in inserting its entry before it runs its checks.
staff_clock_in_InsertsFirst(e, j, lat, lon) ==
    LET outcome == ClockInOutcome(e, j, lat, lon)
    IN  /\ AllIdle
        /\ UNCHANGED <<employees, jobs, uuids, now, pc, loc, patrol, office>>
        /\ Len(timeclock) < MaxSessions
        /\ resp' = outcome
        /\ timeclock' =
              Append(timeclock,
                     ClockInEntry(Len(timeclock) + 1, e, j, Date(now), now,
                                  IF outcome = ClockedIn
                                  THEN ClockInChecks(jobs[j], e, lat, lon).location_verified
                                  ELSE FALSE))

staff_clock_in(e, j, lat, lon) ==
    LET outcome == ClockInOutcome(e, j, lat, lon)
    IN  /\ AllIdle
        /\ UNCHANGED <<employees, jobs, uuids, now, pc, loc, patrol, office>>
        /\ outcome = ClockedIn => Len(timeclock) < MaxSessions
        /\ resp' = outcome
        /\ timeclock' =
              IF outcome = ClockedIn
              THEN Append(timeclock,
                          ClockInEntry(Len(timeclock) + 1, e, j, Date(now), now,
                                       ClockInChecks(jobs[j], e, lat, lon).location_verified))
              ELSE timeclock

ClockOutOutcome(e, lat, lon) ==
    IF FindOpenEntry(timeclock, e) = 0 THEN NoOpenSession
    ELSE IF ClockOutChecks(jobs, timeclock[FindOpenEntry(timeclock, e)].job_id, lat, lon) # None
    THEN ClockOutChecks(jobs, timeclock[FindOpenEntry(timeclock, e)].job_id, lat, lon)[1]
    ELSE ClockedOut

staff_clock_out(e, lat, lon) ==
    LET outcome == ClockOutOutcome(e, lat, lon)
        entry == timeclock[FindOpenEntry(timeclock, e)]
    IN  /\ AllIdle
        /\ UNCHANGED <<employees, jobs, uuids, now, pc, loc, patrol, office>>
        /\ resp' = outcome
        /\ timeclock' =
              IF outcome = ClockedOut
              THEN ClockOutUpdate(timeclock, entry.id, now, HoursWorked(now, entry.clock_in))
              ELSE timeclock

----------------------------------------------------------------------------
(* Requests one at a time, the wall clock standing still: every job          *)
(* configuration, assignment, withdrawal and deletion                        *)

BoolOptions == {None, Some(TRUE), Some(FALSE)}

AssignRequests == {<< >>, <<"e1">>, <<"e2">>, <<"e1", "e2">>}

SeqJobIds == {"j1"}

SeqNext ==
    \/ \E e \in EmployeeIds : create_employee(e)
    \/ \E e \in EmployeeIds : delete_employee(e)
    \/ \E j \in SeqJobIds, r \in BOOLEAN, lat \in JobLatitudes, lon \in JobLongitudes :
          create_job(j, r, lat, lon)
    \/ \E j \in SeqJobIds, r \in BoolOptions, lat \in JobLatitudes, lon \in JobLongitudes :
          update_job(j, r, lat, lon)
    \/ \E j \in SeqJobIds : delete_job(j)
    \/ \E j \in SeqJobIds, ids \in AssignRequests : assign_employees_to_job(j, ids)
    \/ \E e \in EmployeeIds, j \in SeqJobIds : staff_withdraw_from_job(e, j)
    \/ \E e \in EmployeeIds, j \in SeqJobIds, c \in RequestCoordinates :
          staff_clock_in(e, j, c[1], c[2])
    \/ \E e \in EmployeeIds, c \in RequestCoordinates : staff_clock_out(e, c[1], c[2])

SeqSpec == Init /\ [][SeqNext]_vars

----------------------------------------------------------------------------
(* Requests one at a time while the wall clock moves: two jobs without a     *)
(* geofence, sessions across jobs and across UTC days                        *)

ClockNext ==
    \/ \E t \in Times : Tick(t)
    \/ \E t \in Times : ClockSetBack(t)
    \/ \E e \in EmployeeIds : create_employee(e)
    \/ \E j \in JobIds : create_job(j, FALSE, None, None)
    \/ \E j \in JobIds, ids \in AssignRequests : assign_employees_to_job(j, ids)
    \/ \E e \in EmployeeIds, j \in JobIds : staff_clock_in(e, j, None, None)
    \/ \E e \in EmployeeIds : staff_clock_out(e, None, None)

ClockSpec == Init /\ [][ClockNext]_vars

----------------------------------------------------------------------------
(* Clock-in and clock-out one store operation at a time.  A handler's step   *)
(* is the store operation it awaits together with the code that runs on the  *)
(* result up to the next await.                                              *)

Finish(p, r) ==
    /\ pc' = [pc EXCEPT ![p] = "idle"]
    /\ loc' = [loc EXCEPT ![p] = IdleLocals]
    /\ resp' = r

\* employee = await db.employees.find_one({"id": employee_id})
ClockInFindEmployee(p, e, j, lat, lon) ==
    /\ pc[p] = "idle"
    /\ IF e \notin employees
       THEN Finish(p, EmployeeNotFound)
       ELSE /\ pc' = [pc EXCEPT ![p] = "ci_find_job"]
            /\ loc' = [loc EXCEPT ![p] = [IdleLocals EXCEPT !.employee_id = e, !.job_id = j,
                                             !.latitude = lat, !.longitude = lon]]
            /\ UNCHANGED resp
    /\ UNCHANGED <<employees, jobs, timeclock, uuids, now, patrol, office>>

\* job = await db.jobs.find_one(...), the assignment check, the geofence, `today`
ClockInFindJob(p) ==
    LET l == loc[p]
    IN  /\ pc[p] = "ci_find_job"
        /\ IF l.job_id \notin DOMAIN jobs
           THEN Finish(p, JobNotFound)
           ELSE LET chk == ClockInChecks(jobs[l.job_id], l.employee_id, l.latitude, l.longitude)
                IN  IF chk.err # None
                    THEN Finish(p, chk.err[1])
                    ELSE /\ pc' = [pc EXCEPT ![p] = "ci_find_existing"]
                         /\ loc' = [loc EXCEPT ![p].today = Date(now),
                                               ![p].location_verified = chk.location_verified]
                         /\ UNCHANGED resp
        /\ UNCHANGED <<employees, jobs, timeclock, uuids, now, patrol, office>>

\* existing = await db.timeclock.find_one(...), then `now` and the entry are built
ClockInFindExisting(p) ==
    LET l == loc[p]
    IN  /\ pc[p] = "ci_find_existing"
        /\ IF ExistingClockIn(timeclock, l.employee_id, l.job_id, l.today)
           THEN Finish(p, AlreadyClockedIn)
           ELSE /\ pc' = [pc EXCEPT ![p] = "ci_insert"]
                /\ loc' = [loc EXCEPT ![p].now = now]
                /\ UNCHANGED resp
        /\ UNCHANGED <<employees, jobs, timeclock, uuids, now, patrol, office>>

\* await db.timeclock.insert_one(entry)
ClockInInsert(p) ==
    LET l == loc[p]
    IN  /\ pc[p] = "ci_insert"
        /\ Len(timeclock) < MaxSessions
        /\ timeclock' = Append(timeclock,
                               ClockInEntry(Len(timeclock) + 1, l.employee_id, l.job_id,
                                            l.today, l.now, l.location_verified))
        /\ Finish(p, ClockedIn)
        /\ UNCHANGED <<employees, jobs, uuids, now, patrol, office>>

\* entry = await db.timeclock.find_one({"employee_id": ..., "clock_out": None})
ClockOutFindEntry(p, e, lat, lon) ==
    /\ pc[p] = "idle"
    /\ IF FindOpenEntry(timeclock, e) = 0
       THEN Finish(p, NoOpenSession)
       ELSE /\ pc' = [pc EXCEPT ![p] = "co_find_job"]
            /\ loc' = [loc EXCEPT ![p] = [IdleLocals EXCEPT !.employee_id = e,
                                             !.latitude = lat, !.longitude = lon,
                                             !.entry = timeclock[FindOpenEntry(timeclock, e)].id]]
            /\ UNCHANGED resp
    /\ UNCHANGED <<employees, jobs, timeclock, uuids, now, patrol, office>>

\* job = await db.jobs.find_one(...), the geofence, `now` and hours_worked
ClockOutFindJob(p) ==
    LET l == loc[p]
        chk == ClockOutChecks(jobs, timeclock[l.entry].job_id, l.latitude, l.longitude)
    IN  /\ pc[p] = "co_find_job"
        /\ IF chk # None
           THEN Finish(p, chk[1])
           ELSE /\ pc' = [pc EXCEPT ![p] = "co_update"]
                /\ loc' = [loc EXCEPT ![p].now = now]
                /\ UNCHANGED resp
        /\ UNCHANGED <<employees, jobs, timeclock, uuids, now, patrol, office>>

\* await db.timeclock.update_one({"id": entry['id']}, {"$set": ...})
ClockOutUpdateEntry(p) ==
    LET l == loc[p]
    IN  /\ pc[p] = "co_update"
        /\ timeclock' = ClockOutUpdate(timeclock, l.entry, l.now,
                                       HoursWorked(l.now, timeclock[l.entry].clock_in))
        /\ Finish(p, ClockedOut)
        /\ UNCHANGED <<employees, jobs, uuids, now, patrol, office>>

ConcEmployeeIds == {"e1"}

ConcJobIds == {"j1"}

Next ==
    \/ \E t \in Times : Tick(t)
    \/ \E e \in ConcEmployeeIds : create_employee(e)
    \/ \E j \in ConcJobIds : create_job(j, FALSE, None, None)
    \/ \E j \in ConcJobIds, e \in ConcEmployeeIds : assign_employees_to_job(j, <<e>>)
    \/ \E p \in Procs, e \in ConcEmployeeIds, j \in ConcJobIds :
          ClockInFindEmployee(p, e, j, None, None)
    \/ \E p \in Procs : ClockInFindJob(p)
    \/ \E p \in Procs : ClockInFindExisting(p)
    \/ \E p \in Procs : ClockInInsert(p)
    \/ \E p \in Procs, e \in ConcEmployeeIds : ClockOutFindEntry(p, e, None, None)
    \/ \E p \in Procs : ClockOutFindJob(p)
    \/ \E p \in Procs : ClockOutUpdateEntry(p)

Spec == Init /\ [][Next]_vars

----------------------------------------------------------------------------
(* Patrol checkpoints and the patrol ledger.  A checkpoint's id is its       *)
(* position in db.checkpoints and a check-in's id its position in            *)
(* db.patrol_checkins (neither collection ever loses a document).  Names,    *)
(* questions, answers, notes, qr_code and created_at / updated_at are left   *)
(* out: no handler branches on them.                                         *)

MaxCheckpoints == 2

MaxCheckIns == 2

MaxPhotos == 2

\* site_id of a checkpoint, and the site_id parameter of the reports.
Sites == {None, Some("s1")}

\* radius_meters and check_frequency_minutes an administrator may store.
Radii == {50, 500}

Frequencies == {30, 60}

\* Where a patrol may stand: exactly 50 m from the checkpoint (30 north,
\* 40 east) and 51 m from it.
PatrolCoordinates == {<<30, 40>>, <<51, 0>>}

CheckpointIds == 1..MaxCheckpoints

CheckInIds == 1..MaxCheckIns

PhotoLists == {<<"photo1">>, <<"photo2">>}

CheckpointNotFound == Reply(404, "Checkpoint not found")

CheckInNotFound == Reply(404, "Check-in not found")

CheckInRecorded(location_verified) ==
    Reply(200, IF location_verified
               THEN "Check-in recorded - Location verified"
               ELSE "Check-in recorded - Outside checkpoint radius")

\* Checkpoint(...).model_dump(): is_active defaults to True.
NewCheckpoint(id, site_id, radius_meters, check_frequency_minutes) ==
    [id |-> id, site_id |-> site_id, latitude |-> 0, longitude |-> 0,
     radius_meters |-> radius_meters,
     check_frequency_minutes |-> check_frequency_minutes,
     is_active |-> TRUE]

\* update_one({"id": id}, {"$set": update_data}): the fields of update_data
\* replace the document's, the others stay.
SetFields(doc, update_data) ==
    [f \in DOMAIN doc |-> IF f \in DOMAIN update_data THEN update_data[f] ELSE doc[f]]

\* Verified with an exclusive boundary (< instead of <=).
Verified_ExclusiveBoundary(distance, radius_meters, scanned_qr) ==
    distance < radius_meters \/ scanned_qr

\* location_verified = distance <= checkpoint.get('radius_meters', 50) or input.scanned_qr
Verified(distance, radius_meters, scanned_qr) ==
    distance <= radius_meters \/ scanned_qr

\* PatrolCheckIn(...).model_dump(): photos defaults to [], checked_at to now.
NewCheckIn(id, checkpoint, employee_id, lat, lon, scanned_qr, t) ==
    LET distance == haversine_distance(lat, lon, checkpoint.latitude, checkpoint.longitude)
    IN  [id |-> id,
         checkpoint_id |-> checkpoint.id,
         employee_id |-> employee_id,
         job_id |-> checkpoint.site_id,
         latitude |-> lat,
         longitude |-> lon,
         distance_from_checkpoint |-> distance,
         location_verified |-> Verified(distance, checkpoint.radius_meters, scanned_qr),
         scanned_qr |-> scanned_qr,
         photos |-> << >>,
         checked_at |-> t]

\* PushPhotos replacing the list ($set instead of $push).
PushPhotos_Replace(doc, photos) == [doc EXCEPT !.photos = photos]

\* {"$push": {"photos": {"$each": photos}}}
PushPhotos(doc, photos) == [doc EXCEPT !.photos = @ \o photos]

\* round(x, 1) of the percentage num / den * 100, in tenths of a percent
\* (round-half-even), 0 when den is 0.
Rate(num, den) ==
    IF den > 0
    THEN LET q == (num * 1000) \div den
             r == (num * 1000) % den
         IN  IF 2 * r < den THEN q
             ELSE IF 2 * r > den THEN q + 1
             ELSE IF q % 2 = 0 THEN q ELSE q + 1
    ELSE 0

\* The check-ins get_patrol_stats' query matches: job_id when site_id is given,
\* and checked_at starting with the date (today when none is given).
StatsQuery(c, site_id, date, t) ==
    /\ site_id # None => c.job_id = site_id
    /\ Date(c.checked_at) = (IF date # None THEN date[1] ELSE Date(t))

\* The checkpoints the reports count: {"is_active": True} and site_id when given.
CheckpointQuery(cp, site_id) ==
    /\ cp.is_active
    /\ site_id # None => cp.site_id = site_id

\* What get_patrol_stats returns.
PatrolStats(cps, cis, site_id, date, t) ==
    LET matched == {i \in 1..Len(cis) : StatsQuery(cis[i], site_id, date, t)}
        total_checkins == Cardinality(matched)
        verified_checkins == Cardinality({i \in matched : cis[i].location_verified})
        unique_checkpoints == Cardinality({cis[i].checkpoint_id : i \in matched})
        total_checkpoints ==
            Cardinality({k \in 1..Len(cps) : CheckpointQuery(cps[k], site_id)})
    IN  [kind |-> "stats",
         total_checkins |-> total_checkins,
         verified_checkins |-> verified_checkins,
         unverified_checkins |-> total_checkins - verified_checkins,
         verification_rate |-> Rate(verified_checkins, total_checkins),
         checkpoints_visited |-> unique_checkpoints,
         total_checkpoints |-> total_checkpoints,
         coverage_rate |-> Rate(unique_checkpoints, total_checkpoints),
         active_officers |-> Cardinality({cis[i].employee_id : i \in matched})]

\* IsOverdue with an inclusive comparison (>= instead of >).
IsOverdue_Inclusive(seconds_since, check_frequency_minutes) ==
    seconds_since >= check_frequency_minutes * 60

\* minutes_since > cp.get('check_frequency_minutes', 60), minutes_since being
\* (now - last_time).total_seconds() / 60
IsOverdue(seconds_since, check_frequency_minutes) ==
    seconds_since > check_frequency_minutes * 60

\* round(minutes_since - check_frequency_minutes), round-half-even.
MinutesOverdue(seconds_since, check_frequency_minutes) ==
    LET d == seconds_since - check_frequency_minutes * 60
        q == d \div 60
        r == d % 60
    IN  IF 2 * r < 60 THEN q
        ELSE IF 2 * r > 60 THEN q + 1
        ELSE IF q % 2 = 0 THEN q ELSE q + 1

\* find_one({"checkpoint_id": id}, sort=[("checked_at", -1)])['checked_at']:
\* None when no check-in refers to the checkpoint.
LastCheckedAt(cis, id) ==
    LET at == {cis[i].checked_at : i \in {k \in 1..Len(cis) : cis[k].checkpoint_id = id}}
    IN  IF at = {} THEN None
        ELSE Some(CHOOSE a \in at : \A b \in at : b <= a)

\* The entry get_missed_checkpoints appends for a checkpoint, None when it
\* appends nothing.
MissedEntry(cp, cis, t) ==
    LET last == LastCheckedAt(cis, cp.id)
    IN  IF last # None
        THEN IF IsOverdue(t - last[1], cp.check_frequency_minutes)
             THEN Some([id |-> cp.id, last_checked |-> last,
                        minutes_overdue |->
                            Some(MinutesOverdue(t - last[1], cp.check_frequency_minutes)),
                        never_checked |-> FALSE])
             ELSE None
        ELSE Some([id |-> cp.id, last_checked |-> None, minutes_overdue |-> None,
                   never_checked |-> TRUE])

RECURSIVE Missed(_, _, _, _, _)
\* The loop of get_missed_checkpoints over the checkpoints from position k on.
Missed(cps, cis, site_id, t, k) ==
    IF k > Len(cps) THEN << >>
    ELSE (IF CheckpointQuery(cps[k], site_id) THEN MissedEntry(cps[k], cis, t) ELSE << >>)
         \o Missed(cps, cis, site_id, t, k + 1)

create_checkpoint(site_id, radius_meters, check_frequency_minutes) ==
    /\ Len(checkpoints) < MaxCheckpoints
    /\ checkpoints' = Append(checkpoints,
                             NewCheckpoint(Len(checkpoints) + 1, site_id, radius_meters,
                                           check_frequency_minutes))
    /\ Answer(Ok)
    /\ UNCHANGED <<employees, jobs, timeclock, uuids, now, pc, loc,
                   patrol_checkins, defects, body, office>>

update_checkpoint(checkpoint_id, input) ==
    /\ checkpoints' =
          [k \in 1..Len(checkpoints) |->
              IF checkpoints[k].id = checkpoint_id
              THEN SetFields(checkpoints[k], input)
              ELSE checkpoints[k]]
    /\ Answer(IF checkpoint_id \in 1..Len(checkpoints) THEN Ok ELSE CheckpointNotFound)
    /\ UNCHANGED <<employees, jobs, timeclock, uuids, now, pc, loc,
                   patrol_checkins, defects, body, office>>

delete_checkpoint(checkpoint_id) ==
    /\ checkpoints' =
          [k \in 1..Len(checkpoints) |->
              IF checkpoints[k].id = checkpoint_id
              THEN [checkpoints[k] EXCEPT !.is_active = FALSE]
              ELSE checkpoints[k]]
    /\ Answer(IF checkpoint_id \in 1..Len(checkpoints) THEN Ok ELSE CheckpointNotFound)
    /\ UNCHANGED <<employees, jobs, timeclock, uuids, now, pc, loc,
                   patrol_checkins, defects, body, office>>

patrol_check_in(employee_id, checkpoint_id, lat, lon, scanned_qr) ==
    /\ UNCHANGED <<employees, jobs, timeclock, uuids, now, pc, loc, checkpoints, defects, office>>
    /\ IF checkpoint_id \notin 1..Len(checkpoints)
       THEN Answer(CheckpointNotFound) /\ UNCHANGED <<patrol_checkins, body>>
       ELSE IF employee_id \notin employees
       THEN Answer(EmployeeNotFound) /\ UNCHANGED <<patrol_checkins, body>>
       ELSE LET check_in == NewCheckIn(Len(patrol_checkins) + 1, checkpoints[checkpoint_id],
                                       employee_id, lat, lon, scanned_qr, now)
            IN  /\ Len(patrol_checkins) < MaxCheckIns
                /\ patrol_checkins' = Append(patrol_checkins, check_in)
                /\ Answer(CheckInRecorded(check_in.location_verified))
                /\ body' = [kind |-> "check_in",
                            check_in |-> check_in,
                            verification_status |->
                                IF check_in.location_verified
                                THEN "verified" ELSE "unverified"]

add_patrol_photos(checkin_id, photos) ==
    /\ UNCHANGED <<employees, jobs, timeclock, uuids, now, pc, loc, checkpoints, defects, body, office>>
    /\ \A k \in 1..Len(patrol_checkins) :
          patrol_checkins[k].id = checkin_id
          => Len(patrol_checkins[k].photos) + Len(photos) <= MaxPhotos
    /\ patrol_checkins' =
          [k \in 1..Len(patrol_checkins) |->
              IF patrol_checkins[k].id = checkin_id
              THEN PushPhotos(patrol_checkins[k], photos)
              ELSE patrol_checkins[k]]
    /\ Answer(IF checkin_id \in 1..Len(patrol_checkins) THEN Ok ELSE CheckInNotFound)

get_patrol_stats(site_id, date) ==
    /\ UNCHANGED <<employees, jobs, timeclock, uuids, now, pc, loc,
                   checkpoints, patrol_checkins, defects, office>>
    /\ Answer(Ok)
    /\ body' = PatrolStats(checkpoints, patrol_checkins, site_id, date, now)

get_missed_checkpoints(site_id) ==
    /\ UNCHANGED <<employees, jobs, timeclock, uuids, now, pc, loc,
                   checkpoints, patrol_checkins, defects, office>>
    /\ Answer(Ok)
    /\ body' = [kind |-> "missed",
                missed |-> Missed(checkpoints, patrol_checkins, site_id, now, 1)]

----------------------------------------------------------------------------
(* Patrol check-ins one at a time, the wall clock standing still: every      *)
(* radius, position and scan flag, deactivation, photos                      *)

PatrolEmployeeIds == {"e1"}

PatrolNext ==
    \/ \E e \in PatrolEmployeeIds : create_employee(e)
    \/ \E r \in Radii : create_checkpoint(None, r, 60)
    \/ \E id \in CheckpointIds, r \in Radii : update_checkpoint(id, [radius_meters |-> r])
    \/ \E id \in CheckpointIds : delete_checkpoint(id)
    \/ \E e \in EmployeeIds, id \in CheckpointIds, c \in PatrolCoordinates, q \in BOOLEAN :
          patrol_check_in(e, id, c[1], c[2], q)
    \/ \E id \in CheckInIds, photos \in PhotoLists : add_patrol_photos(id, photos)

PatrolSpec == Init /\ [][PatrolNext]_vars

----------------------------------------------------------------------------
(* The patrol reports while the wall clock moves: checkpoints of two site    *)
(* scopes and two frequencies, check-ins at the checkpoint                   *)

ReportDates == {None, Some(0)}

\* The patches sent while the reports are read: re-activation and a move to
\* another site.
ReportPatches == {[is_active |-> TRUE]} \cup {[site_id |-> site] : site \in Sites}

ReportNext ==
    \/ \E t \in Times : Tick(t)
    \/ \E e \in PatrolEmployeeIds : create_employee(e)
    \/ \E site \in Sites, f \in Frequencies : create_checkpoint(site, 50, f)
    \/ \E id \in CheckpointIds, patch \in ReportPatches : update_checkpoint(id, patch)
    \/ \E id \in CheckpointIds : delete_checkpoint(id)
    \/ \E e \in PatrolEmployeeIds, id \in CheckpointIds : patrol_check_in(e, id, 0, 0, FALSE)
    \/ \E site \in Sites, date \in ReportDates : get_patrol_stats(site, date)
    \/ \E site \in Sites : get_missed_checkpoints(site)

ReportSpec == Init /\ [][ReportNext]_vars

----------------------------------------------------------------------------
(* The checkpoint registry on its own: every request an administrator may    *)
(* send, non-positive radius and frequency included, and the two reads       *)

\* radius_meters and check_frequency_minutes are `int`: a request may carry any.
RadiusInputs == {0, 50}

FrequencyInputs == {0, 60}

\* The fields a PUT /checkpoints request sets.
RegistryPatches ==
    {[is_active |-> TRUE]}
    \cup {[radius_meters |-> r] : r \in RadiusInputs}
    \cup {[check_frequency_minutes |-> f] : f \in FrequencyInputs}

\* ListQuery without the is_active condition.
ListQuery_IgnoresActive(cp, site_id, active_only) ==
    site_id # None => cp.site_id = site_id

\* get_checkpoints' query: site_id when given, is_active when active_only.
ListQuery(cp, site_id, active_only) ==
    /\ site_id # None => cp.site_id = site_id
    /\ active_only => cp.is_active

get_checkpoints(site_id, active_only) ==
    /\ UNCHANGED <<employees, jobs, timeclock, uuids, now, pc, loc,
                   checkpoints, patrol_checkins, defects, office>>
    /\ Answer(Ok)
    /\ body' = [kind |-> "checkpoints",
                checkpoints |->
                    SelectSeq(checkpoints, LAMBDA cp : ListQuery(cp, site_id, active_only))]

get_checkpoint(checkpoint_id) ==
    /\ UNCHANGED <<employees, jobs, timeclock, uuids, now, pc, loc,
                   checkpoints, patrol_checkins, defects, office>>
    /\ IF checkpoint_id \in 1..Len(checkpoints)
       THEN /\ Answer(Ok)
            /\ body' = [kind |-> "checkpoint", checkpoint |-> checkpoints[checkpoint_id]]
       ELSE Answer(CheckpointNotFound) /\ UNCHANGED body

RegistryNext ==
    \/ \E site \in Sites, r \in RadiusInputs, f \in FrequencyInputs :
          create_checkpoint(site, r, f)
    \/ \E id \in CheckpointIds, patch \in RegistryPatches : update_checkpoint(id, patch)
    \/ \E id \in CheckpointIds : delete_checkpoint(id)
    \/ \E site \in Sites, a \in BOOLEAN : get_checkpoints(site, a)
    \/ \E id \in CheckpointIds : get_checkpoint(id)

RegistrySpec == Init /\ [][RegistryNext]_vars

----------------------------------------------------------------------------
(* Defects.  A defect's id is its position in db.defects (no handler removes *)
(* a defect).  Of a defect's fields the model keeps the reporter, the status *)
(* and the resolution stamps; title, description, severity, site, photos,    *)
(* assignee, resolution_notes, resolved_by_name and updated_at are left out. *)

MaxDefects == 2

DefectIds == 1..MaxDefects

\* class DefectStatus
DefectStatus == {"open", "in_progress", "resolved", "closed"}

\* DefectUpdate.status is Optional[str]: any string is accepted.
PatchStatuses == DefectStatus \cup {"reopened"}

\* The fields a PUT /defects request sets: a status, or only fields the model
\* leaves out.
DefectPatches == {[status |-> st] : st \in PatchStatuses} \cup {[title |-> "title"]}

DefectNotFound == Reply(404, "Defect not found")

\* Defect(...).model_dump(): status defaults to "open", the stamps to None.
NewDefect(id, employee_id) ==
    [id |-> id, status |-> "open", reported_by_id |-> employee_id,
     resolved_at |-> None, resolved_by_id |-> None]

\* update_defect's update_data: the patch, with resolved_at when the status
\* changes to resolved.
DefectUpdateData(existing, input, t) ==
    IF "status" \in DOMAIN input /\ input.status = "resolved" /\ existing.status # "resolved"
    THEN input @@ [resolved_at |-> Some(t)]
    ELSE input

\* ResolveUpdateData without the resolver's id.
ResolveUpdateData_NoResolver(resolver_id, t) ==
    [status |-> "resolved", resolved_at |-> Some(t)]

\* resolve_defect's update_data
ResolveUpdateData(resolver_id, t) ==
    [status |-> "resolved", resolved_at |-> Some(t), resolved_by_id |-> Some(resolver_id)]

create_defect(employee_id) ==
    /\ UNCHANGED <<employees, jobs, timeclock, uuids, now, pc, loc,
                   checkpoints, patrol_checkins, body, office>>
    /\ IF employee_id \notin employees
       THEN Answer(EmployeeNotFound) /\ UNCHANGED defects
       ELSE /\ Len(defects) < MaxDefects
            /\ defects' = Append(defects, NewDefect(Len(defects) + 1, employee_id))
            /\ Answer(Ok)

update_defect(defect_id, input) ==
    /\ UNCHANGED <<employees, jobs, timeclock, uuids, now, pc, loc,
                   checkpoints, patrol_checkins, body, office>>
    /\ defects' =
          [k \in 1..Len(defects) |->
              IF defects[k].id = defect_id
              THEN SetFields(defects[k], DefectUpdateData(defects[k], input, now))
              ELSE defects[k]]
    /\ Answer(IF defect_id \in 1..Len(defects) THEN Ok ELSE DefectNotFound)

resolve_defect(defect_id, resolver_id) ==
    /\ UNCHANGED <<employees, jobs, timeclock, uuids, now, pc, loc,
                   checkpoints, patrol_checkins, body, office>>
    /\ defects' =
          [k \in 1..Len(defects) |->
              IF defects[k].id = defect_id
              THEN SetFields(defects[k], ResolveUpdateData(resolver_id, now))
              ELSE defects[k]]
    /\ Answer(IF defect_id \in 1..Len(defects) THEN Ok ELSE DefectNotFound)

DefectNext ==
    \/ \E t \in Times : Tick(t)
    \/ \E e \in PatrolEmployeeIds : create_employee(e)
    \/ \E e \in EmployeeIds : create_defect(e)
    \/ \E id \in DefectIds, input \in DefectPatches : update_defect(id, input)
    \/ \E id \in DefectIds, e \in EmployeeIds : resolve_defect(id, e)

DefectSpec == Init /\ [][DefectNext]_vars

----------------------------------------------------------------------------
(* Invoices.  Money is in pence and a quantity in hundredths of a unit, so   *)
(* round(x, 2) is a division rounded to a whole number of pence.  The        *)
(* invoice number "INV-<year>-<n filled with zeros to three digits>" is the  *)
(* pair <<year, n>>: the format maps different pairs to different strings.  *)
(* Dates are UTC day numbers.  An invoice's id is the count of ids generated *)
(* when it was created (invoices can be deleted, so it is not a position).   *)
(* Client name, job_id, job_name, contract_id, issue_date, notes and         *)
(* created_at are left out: no handler branches on them.                     *)

MaxInvoices == 2

MaxInvoiceIds == 3

InvoiceIds == 1..MaxInvoiceIds

INVOICE_STATUS == {"draft", "sent", "paid", "overdue", "cancelled"}

ClientEmails == {None, Some("client@example.com")}

ItemLists ==
    { <<[quantity |-> 100, unit_price |-> 1000]>>,
      <<[quantity |-> 200, unit_price |-> 2500], [quantity |-> 150, unit_price |-> 1000]>> }

TaxRates == {0, 20}

\* What resend.Emails.send did, as send_email_async reports it.
DispatchResults == {[success |-> TRUE], [success |-> FALSE]}

InvoiceNotFound == Reply(404, "Invoice not found")

ClientEmailNotSet == Reply(400, "Client email not set")

InvoiceSent == Reply(200, "Invoice sent successfully")

FailedToSend == Reply(500, "Failed to send invoice")

InvoiceDeleted == Reply(200, "Invoice deleted successfully")

InvoicePaid == Reply(200, "Invoice marked as paid")

\* round(n / d) for n >= 0, d > 0 (round-half-even).
RoundDiv(n, d) ==
    LET q == n \div d
        r == n % d
    IN  IF 2 * r < d THEN q
        ELSE IF 2 * r > d THEN q + 1
        ELSE IF q % 2 = 0 THEN q ELSE q + 1

\* datetime.now().year (a year of 365 days: the readings of Times are in 1970).
Year(t) == 1970 + t \div (365 * SecondsPerDay)

\* The items as stored: each with total = round(quantity * unit_price, 2).
Priced(items) ==
    [k \in 1..Len(items) |->
        [quantity |-> items[k].quantity, unit_price |-> items[k].unit_price,
         total |-> RoundDiv(items[k].quantity * items[k].unit_price, 100)]]

\* subtotal += item.quantity * item.unit_price, in hundredths of a penny.
RECURSIVE Subtotal(_)
Subtotal(items) ==
    IF items = << >> THEN 0
    ELSE Head(items).quantity * Head(items).unit_price + Subtotal(Tail(items))

\* sum(item['total'] for item in items), in pence.
RECURSIVE SumTotals(_)
SumTotals(items) ==
    IF items = << >> THEN 0 ELSE Head(items).total + SumTotals(Tail(items))

\* count_documents({"invoice_number": {"$regex": "^INV-<year>-"}}), and the
\* number made of it.
generate_invoice_number ==
    LET year == Year(now)
        count == Cardinality({k \in 1..Len(invoices) : invoices[k].invoice_number[1] = year})
    IN  <<year, count + 1>>

\* The positions of the invoices with this id (at most one).
InvoiceAt(invoice_id) == {k \in 1..Len(invoices) : invoices[k].id = invoice_id}

\* find_one({"id": invoice_id}): None or the invoice.
FindInvoice(invoice_id) ==
    IF InvoiceAt(invoice_id) = {} THEN None
    ELSE Some(invoices[CHOOSE k \in InvoiceAt(invoice_id) : TRUE])

\* update_one({"id": invoice_id}, {"$set": update_data})
SetInvoice(invoice_id, update_data) ==
    [k \in 1..Len(invoices) |->
        IF invoices[k].id = invoice_id THEN SetFields(invoices[k], update_data)
        ELSE invoices[k]]

\* Invoice(...) as both creating handlers build it: amounts holds subtotal,
\* tax_rate, tax_amount and total_amount.
Invoice(id, invoice_number, client_email, items, amounts, due_date) ==
    [id |-> id, invoice_number |-> invoice_number, client_email |-> client_email,
     items |-> items, subtotal |-> amounts.subtotal, tax_rate |-> amounts.tax_rate,
     tax_amount |-> amounts.tax_amount, total_amount |-> amounts.total_amount,
     due_date |-> due_date, status |-> "draft", payment_date |-> None]

create_invoice(client_email, items, tax_rate, due_date) ==
    /\ invoice_uuids < MaxInvoiceIds
    /\ Len(invoices) < MaxInvoices
    /\ LET subtotal == Subtotal(items)
       IN  invoices' = Append(invoices,
               Invoice(invoice_uuids + 1, generate_invoice_number, client_email,
                       Priced(items),
                       [subtotal |-> RoundDiv(subtotal, 100),
                        tax_rate |-> tax_rate,
                        tax_amount |-> RoundDiv(subtotal * tax_rate, 10000),
                        total_amount |->
                            RoundDiv(subtotal * 100 + subtotal * tax_rate, 10000)],
                       due_date))
    /\ invoice_uuids' = invoice_uuids + 1
    /\ Answer(Ok)
    /\ UNCHANGED <<employees, jobs, timeclock, uuids, now, pc, loc, patrol,
                   users, password_hash>>

\* update_data: the fields of the patch that are not None and, when items is
\* one of them, the totals recomputed from the new items.
InvoiceUpdateData(existing, input) ==
    IF "items" \in DOMAIN input
    THEN LET subtotal == Subtotal(input.items)
             tax_rate == IF "tax_rate" \in DOMAIN input THEN input.tax_rate
                         ELSE existing.tax_rate
             tax_amount == RoundDiv(subtotal * tax_rate, 10000)
         IN  [items |-> Priced(input.items),
              subtotal |-> RoundDiv(subtotal, 100),
              tax_amount |-> tax_amount,
              total_amount |-> RoundDiv(subtotal + 100 * tax_amount, 100)] @@ input
    ELSE input

update_invoice(invoice_id, input) ==
    /\ LET existing == FindInvoice(invoice_id)
       IN  IF existing = None
           THEN Answer(InvoiceNotFound) /\ UNCHANGED invoices
           ELSE /\ invoices' = SetInvoice(invoice_id, InvoiceUpdateData(existing[1], input))
                /\ Answer(Ok)
    /\ UNCHANGED <<employees, jobs, timeclock, uuids, now, pc, loc, patrol,
                   invoice_uuids, users, password_hash>>

delete_invoice(invoice_id) ==
    /\ invoices' = SelectSeq(invoices, LAMBDA inv : inv.id # invoice_id)
    /\ Answer(IF InvoiceAt(invoice_id) = {} THEN InvoiceNotFound ELSE InvoiceDeleted)
    /\ UNCHANGED <<employees, jobs, timeclock, uuids, now, pc, loc, patrol,
                   invoice_uuids, users, password_hash>>

\* The dispatch is taken to have succeeded whatever send_email_async reports.
Dispatched_Always(result) == TRUE

\* result.get('success')
Dispatched(result) == result.success

\* `not invoice.get('client_email')`: no address, or an empty one.
NoClientEmail(invoice) == invoice.client_email \in {None, Some("")}

send_invoice(invoice_id, result) ==
    /\ LET invoice == FindInvoice(invoice_id)
       IN  IF invoice = None
           THEN Answer(InvoiceNotFound) /\ UNCHANGED invoices
           ELSE IF NoClientEmail(invoice[1])
           THEN Answer(ClientEmailNotSet) /\ UNCHANGED invoices
           ELSE IF Dispatched(result)
           THEN /\ invoices' = SetInvoice(invoice_id, [status |-> "sent"])
                /\ Answer(InvoiceSent)
           ELSE Answer(FailedToSend) /\ UNCHANGED invoices
    /\ UNCHANGED <<employees, jobs, timeclock, uuids, now, pc, loc, patrol,
                   invoice_uuids, users, password_hash>>

mark_invoice_paid(invoice_id) ==
    /\ IF FindInvoice(invoice_id) = None
       THEN Answer(InvoiceNotFound) /\ UNCHANGED invoices
       ELSE /\ invoices' = SetInvoice(invoice_id,
                               [status |-> "paid", payment_date |-> Some(Date(now))])
            /\ Answer(InvoicePaid)
    /\ UNCHANGED <<employees, jobs, timeclock, uuids, now, pc, loc, patrol,
                   invoice_uuids, users, password_hash>>

\* The overdue sweep of the invoice list: sent and due before today.
IsPastDue(inv, today) == inv.status = "sent" /\ inv.due_date < today

get_invoices ==
    /\ invoices' = [k \in 1..Len(invoices) |->
                       IF IsPastDue(invoices[k], Date(now))
                       THEN SetFields(invoices[k], [status |-> "overdue"])
                       ELSE invoices[k]]
    /\ Answer(Ok)
    /\ UNCHANGED <<employees, jobs, timeclock, uuids, now, pc, loc, patrol,
                   invoice_uuids, users, password_hash>>

\* sum(inv.get('total_amount', 0) for inv in invoices if the status is one of
\* these)
RECURSIVE TotalOf(_, _)
TotalOf(invs, statuses) ==
    IF invs = << >> THEN 0
    ELSE (IF Head(invs).status \in statuses THEN Head(invs).total_amount ELSE 0)
         + TotalOf(Tail(invs), statuses)

\* sum(inv.get('total_amount', 0) for inv in invoices)
RECURSIVE TotalInvoiced(_)
TotalInvoiced(invs) ==
    IF invs = << >> THEN 0 ELSE Head(invs).total_amount + TotalInvoiced(Tail(invs))

InvoiceStats(invs) ==
    [kind |-> "invoice_stats",
     total_invoices |-> Len(invs),
     total_invoiced |-> TotalInvoiced(invs),
     total_paid |-> TotalOf(invs, {"paid"}),
     total_pending |-> TotalOf(invs, {"sent", "draft"}),
     total_overdue |-> TotalOf(invs, {"overdue"})]

get_invoice_stats ==
    /\ body' = InvoiceStats(invoices)
    /\ Answer(Ok)
    /\ UNCHANGED <<employees, jobs, timeclock, uuids, now, pc, loc,
                   checkpoints, patrol_checkins, defects, office>>

\* The 28th of the current month (day + 30 is never below 28); the readings of
\* Times are in January 1970.
DueDate(t) == 27

\* sum(e.get('hours_worked', 0) or 0 for e in timeclock_entries), in hundredths.
RECURSIVE TotalHours(_, _)
TotalHours(tc, job_id) ==
    IF tc = << >> THEN 0
    ELSE (IF Head(tc).job_id = job_id /\ Head(tc).hours_worked # None
          THEN Head(tc).hours_worked[1] ELSE 0)
         + TotalHours(Tail(tc), job_id)

\* The one item of a job's invoice: the hours worked or, without any, the
\* estimate of the job's duration times its staff.
JobItems(job, total_hours, hourly_rate, estimated_hours) ==
    LET quantity == IF total_hours > 0 THEN total_hours
                    ELSE estimated_hours * Len(job.assigned_employees)
    IN  <<[quantity |-> quantity, unit_price |-> hourly_rate,
           total |-> RoundDiv(quantity * hourly_rate, 100)]>>

\* The hourly rates and (end_time - start_time) a job may carry (hundredths of
\* an hour); the job documents of this model do not keep them.
HourlyRates == {1500}

EstimatedHours == {800}

generate_invoice_from_job(job_id, hourly_rate, estimated_hours) ==
    /\ IF job_id \notin DOMAIN jobs
       THEN Answer(JobNotFound) /\ UNCHANGED <<invoices, invoice_uuids>>
       ELSE /\ invoice_uuids < MaxInvoiceIds
            /\ Len(invoices) < MaxInvoices
            /\ LET items == JobItems(jobs[job_id], TotalHours(timeclock, job_id),
                                     hourly_rate, estimated_hours)
                   subtotal == SumTotals(items)
               IN  invoices' = Append(invoices,
                       Invoice(invoice_uuids + 1, generate_invoice_number, None,
                               items,
                               [subtotal |-> subtotal,
                                tax_rate |-> 20,
                                tax_amount |-> RoundDiv(subtotal * 20, 100),
                                total_amount |->
                                    RoundDiv(subtotal * 100 + subtotal * 20, 100)],
                               DueDate(now)))
            /\ invoice_uuids' = invoice_uuids + 1
            /\ Answer(Ok)
    /\ UNCHANGED <<employees, jobs, timeclock, uuids, now, pc, loc, patrol,
                   users, password_hash>>

----------------------------------------------------------------------------
(* The invoice ledger while the wall clock moves: invoices with and without  *)
(* a client address, every status a patch may set, dispatches that succeed   *)
(* and fail, payment, the overdue sweep and the statistics                   *)

StatusPatches == {[status |-> s] : s \in INVOICE_STATUS}

InvoiceNext ==
    \/ \E t \in Times : Tick(t)
    \/ \E c \in ClientEmails : create_invoice(c, <<[quantity |-> 100, unit_price |-> 1000]>>, 20, 0)
    \/ \E i \in InvoiceIds, input \in StatusPatches : update_invoice(i, input)
    \/ \E i \in InvoiceIds, result \in DispatchResults : send_invoice(i, result)
    \/ \E i \in InvoiceIds : mark_invoice_paid(i)
    \/ get_invoices
    \/ get_invoice_stats

InvoiceSpec == Init /\ [][InvoiceNext]_vars

----------------------------------------------------------------------------
(* The amounts of an invoice: every list of items and tax rate at creation,  *)
(* and every combination of items, tax_rate and client_email in a patch      *)

AmountPatches ==
    {[items |-> items] : items \in ItemLists}
    \cup {[tax_rate |-> r] : r \in TaxRates}
    \cup {[items |-> items, tax_rate |-> r] : items \in ItemLists, r \in TaxRates}
    \cup {[client_email |-> Some("")]}

AmountNext ==
    \/ \E items \in ItemLists, r \in TaxRates : create_invoice(None, items, r, 0)
    \/ \E i \in InvoiceIds, input \in AmountPatches : update_invoice(i, input)

AmountSpec == Init /\ [][AmountNext]_vars

----------------------------------------------------------------------------
(* Invoice numbering: invoices created by hand and from a job, and deleted   *)

NumberNext ==
    \/ \E j \in SeqJobIds : create_job(j, FALSE, None, None)
    \/ \E c \in ClientEmails, items \in ItemLists : create_invoice(c, items, 20, 0)
    \/ \E j \in SeqJobIds, h \in HourlyRates, d \in EstimatedHours :
          generate_invoice_from_job(j, h, d)
    \/ \E i \in InvoiceIds : delete_invoice(i)

NumberSpec == Init /\ [][NumberNext]_vars

----------------------------------------------------------------------------
(* Staff signing up for and withdrawing from a job, one store operation at a *)
(* time.  An assignment is the employee's id (name, position and phone are   *)
(* left out).                                                                *)

StaffRequired == {1, 2}

AlreadySignedUp == Reply(400, "Already signed up for this job")

FullyStaffed == Reply(400, "Job is fully staffed")

SignedUp == Reply(200, "Successfully signed up for job")

Withdrawn == Reply(200, "Successfully withdrawn from job")

\* create_job, with the staff_required the signup handlers read.
create_job_staffed(j, staff_required) ==
    /\ uuids.job < Len(JobIdSeq)
    /\ j = JobIdSeq[uuids.job + 1]
    /\ uuids' = [uuids EXCEPT !.job = @ + 1]
    /\ jobs' = jobs @@ (j :> [assigned_employees |-> << >>,
                              require_location |-> FALSE,
                              latitude |-> None,
                              longitude |-> None,
                              staff_required |-> staff_required])
    /\ Answer(Ok)
    /\ UNCHANGED <<employees, timeclock, now, pc, loc, patrol, office>>

\* The two checks of a signup on the job document it read: None, or the error.
SignupChecks(job, employee_id) ==
    IF \E k \in 1..Len(job.assigned_employees) : job.assigned_employees[k] = employee_id
    THEN Some(AlreadySignedUp)
    ELSE IF Len(job.assigned_employees) >= job.staff_required
    THEN Some(FullyStaffed)
    ELSE None

\* employee = await db.employees.find_one({"id": employee_id})
SignupFindEmployee(p, e, j) ==
    /\ pc[p] = "idle"
    /\ IF e \notin employees
       THEN Finish(p, EmployeeNotFound)
       ELSE /\ pc' = [pc EXCEPT ![p] = "su_find_job"]
            /\ loc' = [loc EXCEPT ![p] = [IdleLocals EXCEPT !.employee_id = e, !.job_id = j]]
            /\ UNCHANGED resp
    /\ UNCHANGED <<employees, jobs, timeclock, uuids, now, patrol, office>>

\* job = await db.jobs.find_one({"id": request.job_id}), and the two checks
SignupFindJob(p) ==
    LET l == loc[p]
    IN  /\ pc[p] = "su_find_job"
        /\ IF l.job_id \notin DOMAIN jobs
           THEN Finish(p, JobNotFound)
           ELSE LET err == SignupChecks(jobs[l.job_id], l.employee_id)
                IN  IF err # None
                    THEN Finish(p, err[1])
                    ELSE /\ pc' = [pc EXCEPT ![p] = "su_push"]
                         /\ UNCHANGED <<loc, resp>>
        /\ UNCHANGED <<employees, jobs, timeclock, uuids, now, patrol, office>>

\* await db.jobs.update_one({"id": job_id}, {"$push": {"assigned_employees": ...}})
SignupPush(p) ==
    LET l == loc[p]
    IN  /\ pc[p] = "su_push"
        /\ jobs' = IF l.job_id \in DOMAIN jobs
                   THEN [jobs EXCEPT ![l.job_id].assigned_employees = Append(@, l.employee_id)]
                   ELSE jobs
        /\ Finish(p, SignedUp)
        /\ UNCHANGED <<employees, timeclock, uuids, now, patrol, office>>

\* job = await db.jobs.find_one({"id": job_id})
WithdrawFindJob(p, e, j) ==
    /\ pc[p] = "idle"
    /\ IF j \notin DOMAIN jobs
       THEN Finish(p, JobNotFound)
       ELSE /\ pc' = [pc EXCEPT ![p] = "wd_pull"]
            /\ loc' = [loc EXCEPT ![p] = [IdleLocals EXCEPT !.employee_id = e, !.job_id = j]]
            /\ UNCHANGED resp
    /\ UNCHANGED <<employees, jobs, timeclock, uuids, now, patrol, office>>

\* await db.jobs.update_one({"id": job_id}, {"$pull": {"assigned_employees": ...}})
WithdrawPull(p) ==
    LET l == loc[p]
    IN  /\ pc[p] = "wd_pull"
        /\ jobs' = IF l.job_id \in DOMAIN jobs
                   THEN [jobs EXCEPT ![l.job_id].assigned_employees =
                            SelectSeq(@, LAMBDA a : a # l.employee_id)]
                   ELSE jobs
        /\ Finish(p, Withdrawn)
        /\ UNCHANGED <<employees, timeclock, uuids, now, patrol, office>>

SignupNext ==
    \/ \E e \in EmployeeIds : create_employee(e)
    \/ \E j \in SeqJobIds, n \in StaffRequired : create_job_staffed(j, n)
    \/ \E p \in Procs, e \in EmployeeIds, j \in SeqJobIds : SignupFindEmployee(p, e, j)
    \/ \E p \in Procs : SignupFindJob(p)
    \/ \E p \in Procs : SignupPush(p)
    \/ \E p \in Procs, e \in EmployeeIds, j \in SeqJobIds : WithdrawFindJob(p, e, j)
    \/ \E p \in Procs : WithdrawPull(p)

SignupSpec == Init /\ [][SignupNext]_vars

----------------------------------------------------------------------------
(* Passwords and login.  A password is its text together with what           *)
(* validate_password_strength reads of it (length and character classes); a  *)
(* sha256 digest is the tagged text, so equal digests mean equal passwords.  *)
(* E-mail addresses are lower-case (the comparisons ignore case).  Of a user *)
(* document the model keeps the email and the password_hash; tokens, names   *)
(* and roles are left out.                                                   *)

Password(text, length, upper, lower, digit) ==
    [text |-> text, length |-> length, upper |-> upper, lower |-> lower, digit |-> digit]

\* The password behind the default ADMIN_PASSWORD_HASH.
AdminPassword == Password("LondonE7", 8, TRUE, TRUE, TRUE)

DEFAULT_STAFF_PASSWORD == Password("RSG2025", 7, TRUE, FALSE, TRUE)

Passwords ==
    {AdminPassword, DEFAULT_STAFF_PASSWORD,
     Password("NewPass1", 8, TRUE, TRUE, TRUE), Password("letmein", 7, FALSE, TRUE, FALSE)}

\* hashlib.sha256(password.encode()).hexdigest()
sha256(password) == <<"sha256", password.text>>

ADMIN_EMAIL == "info@rightservicegroup.co.uk"

ADMIN_PASSWORD_HASH == sha256(AdminPassword)

AuthEmployeeIds == {"e1"}

UserIds == {"u1"}

\* The address an employee or a user was created with.
EmailOf == ("e1" :> "e1@example.com") @@ ("e2" :> "e2@example.com")
           @@ ("u1" :> "u1@example.com") @@ ("admin" :> ADMIN_EMAIL)

\* The accounts a change-password request may name.
AccountIds == {"admin"} \cup UserIds \cup AuthEmployeeIds

LoginSuccessful == Reply(200, "Login successful")

InvalidLogin == Reply(401, "Invalid email or password")

PasswordChanged == Reply(200, "Password changed successfully")

CurrentPasswordIncorrect == Reply(400, "Current password is incorrect")

StaffPasswordIncorrect == Reply(401, "Current password is incorrect")

UserNotFound == Reply(404, "User not found")

EmailRegistered == Reply(400, "Email already registered")

\* None when the password is strong, or the first requirement it misses.
validate_password_strength(password) ==
    IF password.length < 8
    THEN Some("Password must be at least 8 characters long")
    ELSE IF ~password.upper
    THEN Some("Password must contain at least one uppercase letter")
    ELSE IF ~password.lower
    THEN Some("Password must contain at least one lowercase letter")
    ELSE IF ~password.digit
    THEN Some("Password must contain at least one number")
    ELSE None

\* employee.get('password_hash'), or the digest of the default password.
StoredHash(hashes, e) ==
    IF e \in DOMAIN hashes THEN hashes[e] ELSE sha256(DEFAULT_STAFF_PASSWORD)

\* What login answers for these credentials, given db.employees: the admin
\* constants first, then the employee with this address.
LoginOutcome(email, password, emps, hashes) ==
    IF email = ADMIN_EMAIL /\ sha256(password) = ADMIN_PASSWORD_HASH
    THEN LoginSuccessful
    ELSE IF \E e \in emps : EmailOf[e] = email /\ sha256(password) = StoredHash(hashes, e)
    THEN LoginSuccessful
    ELSE InvalidLogin

login(email, password) ==
    /\ Answer(LoginOutcome(email, password, employees, password_hash))
    /\ UNCHANGED <<employees, jobs, timeclock, uuids, now, pc, loc, patrol, office>>

create_user(u, password) ==
    /\ u \notin DOMAIN users
    /\ IF \E v \in DOMAIN users : users[v].email = EmailOf[u]
       THEN Answer(EmailRegistered) /\ UNCHANGED users
       ELSE IF validate_password_strength(password) # None
       THEN Answer(Reply(400, validate_password_strength(password)[1])) /\ UNCHANGED users
       ELSE /\ users' = users @@ (u :> [email |-> EmailOf[u],
                                        password_hash |-> sha256(password)])
            /\ Answer(Ok)
    /\ UNCHANGED <<employees, jobs, timeclock, uuids, now, pc, loc, patrol,
                   invoices, invoice_uuids, password_hash>>

\* update_one({"email": ADMIN_EMAIL}, {"$set": {password_hash}}) when a user
\* with the admin address exists, else insert_one(User(id="admin", ...)).
StoreAdminHash(new_hash) ==
    IF \E v \in DOMAIN users : users[v].email = ADMIN_EMAIL
    THEN LET v == CHOOSE w \in DOMAIN users : users[w].email = ADMIN_EMAIL
         IN  [users EXCEPT ![v].password_hash = new_hash]
    ELSE users @@ ("admin" :> [email |-> ADMIN_EMAIL, password_hash |-> new_hash])

change_password(user_id, current_password, new_password) ==
    LET current_hash == sha256(current_password)
        new_hash == sha256(new_password)
        weak == validate_password_strength(new_password)
    IN  /\ IF weak # None
           THEN Answer(Reply(400, weak[1])) /\ UNCHANGED <<users, password_hash>>
           ELSE IF user_id = "admin"
           THEN IF current_hash # ADMIN_PASSWORD_HASH
                THEN Answer(CurrentPasswordIncorrect) /\ UNCHANGED <<users, password_hash>>
                ELSE /\ users' = StoreAdminHash(new_hash)
                     /\ Answer(PasswordChanged)
                     /\ UNCHANGED password_hash
           ELSE IF user_id \in DOMAIN users
           THEN IF users[user_id].password_hash # current_hash
                THEN Answer(CurrentPasswordIncorrect) /\ UNCHANGED <<users, password_hash>>
                ELSE /\ users' = [users EXCEPT ![user_id].password_hash = new_hash]
                     /\ Answer(PasswordChanged)
                     /\ UNCHANGED password_hash
           ELSE IF user_id \in employees
           THEN IF StoredHash(password_hash, user_id) # current_hash
                THEN Answer(CurrentPasswordIncorrect) /\ UNCHANGED <<users, password_hash>>
                ELSE /\ password_hash' =
                            [e \in DOMAIN password_hash \cup {user_id} |->
                                IF e = user_id THEN new_hash ELSE password_hash[e]]
                     /\ Answer(PasswordChanged)
                     /\ UNCHANGED users
           ELSE Answer(UserNotFound) /\ UNCHANGED <<users, password_hash>>
        /\ UNCHANGED <<employees, jobs, timeclock, uuids, now, pc, loc, patrol,
                       invoices, invoice_uuids>>

staff_change_password(employee_id, old_password, new_password) ==
    /\ IF employee_id \notin employees
       THEN Answer(EmployeeNotFound) /\ UNCHANGED password_hash
       ELSE IF sha256(old_password) # StoredHash(password_hash, employee_id)
       THEN Answer(StaffPasswordIncorrect) /\ UNCHANGED password_hash
       ELSE /\ password_hash' =
                   [e \in DOMAIN password_hash \cup {employee_id} |->
                       IF e = employee_id THEN sha256(new_password) ELSE password_hash[e]]
            /\ Answer(PasswordChanged)
    /\ UNCHANGED <<employees, jobs, timeclock, uuids, now, pc, loc, patrol,
                   invoices, invoice_uuids, users>>

AuthNext ==
    \/ \E e \in AuthEmployeeIds : create_employee(e)
    \/ \E u \in UserIds, password \in Passwords : create_user(u, password)
    \/ \E a \in AccountIds, current_password \in Passwords, new_password \in Passwords :
          change_password(a, current_password, new_password)
    \/ \E e \in AuthEmployeeIds, old_password \in Passwords, new_password \in Passwords :
          staff_change_password(e, old_password, new_password)
    \/ \E a \in AccountIds, password \in Passwords : login(EmailOf[a], password)

AuthSpec == Init /\ [][AuthNext]_vars

----------------------------------------------------------------------------
(* Claims *)

\* The open sessions of employee e.
OpenSessions(e) == {i \in 1..Len(timeclock) :
                        timeclock[i].employee_id = e /\ timeclock[i].clock_out = None}

\* C1: after any sequence of clock-in and clock-out requests run one after the
\* other, across jobs and across UTC days, every employee has at most one
\* session with clock_out = null.
C1_AtMostOneOpenSession ==
    \A e \in EmployeeIds : Cardinality(OpenSessions(e)) <= 1

\* C2: whatever the interleaving of concurrent clock-in requests of one employee
\* for the same job on the same UTC day, no two open sessions of that employee
\* for that job and day exist.
C2_NoDuplicateOpenSession ==
    \A i, k \in 1..Len(timeclock) :
        ( /\ i # k
          /\ timeclock[i].employee_id = timeclock[k].employee_id
          /\ timeclock[i].job_id = timeclock[k].job_id
          /\ timeclock[i].date = timeclock[k].date )
        => ~(timeclock[i].clock_out = None /\ timeclock[k].clock_out = None)

\* C3: once clock_out is set on a session no later step of any request changes
\* the session, and no step removes a session.
C3_ClosedSessionNeverChanges ==
    [][\A i \in 1..Len(timeclock) :
          /\ Len(timeclock') >= i
          /\ timeclock[i].clock_out # None => timeclock'[i] = timeclock[i]]_vars

\* C4: a clock-out request of an employee who has no open session is answered
\* NoOpenSession (400) and leaves the timeclock collection as it was.
C4_ClockOutWithoutOpenSession ==
    [][\A e \in EmployeeIds, c \in RequestCoordinates :
          (OpenSessions(e) = {} /\ staff_clock_out(e, c[1], c[2]))
          => (resp' = NoOpenSession /\ timeclock' = timeclock)]_vars

\* C4 witness: a clock-out was refused with NoOpenSession while another
\* employee's session was open.
C4_Witness ==
    /\ resp = NoOpenSession
    /\ \E i \in 1..Len(timeclock) : timeclock[i].clock_out = None

\* C5: every stored hours_worked is >= 0.
C5_HoursWorkedNonNegative ==
    \A i \in 1..Len(timeclock) :
        timeclock[i].hours_worked # None => timeclock[i].hours_worked[1] >= 0

\* The request of employee e for job j reaches staff_clock_in's checks.
Known(e, j) == e \in employees /\ j \in DOMAIN jobs

\* The session a successful clock-in has just inserted.
Inserted(e, j) ==
    /\ Len(timeclock') = Len(timeclock) + 1
    /\ SubSeq(timeclock', 1, Len(timeclock)) = timeclock
    /\ timeclock'[Len(timeclock')].employee_id = e
    /\ timeclock'[Len(timeclock')].job_id = j
    /\ timeclock'[Len(timeclock')].clock_out = None

\* C6: a clock-in to a job with require_location = false, by a stored employee
\* who is assigned and has no open session, succeeds whatever coordinates the
\* request carries and whatever coordinates the job stores, and the session
\* it creates has location_verified = false.
C6_UngatedClockInSucceeds ==
    [][\A e \in EmployeeIds, j \in SeqJobIds, c \in RequestCoordinates :
          ( /\ Known(e, j)
            /\ ~jobs[j].require_location
            /\ e \in assigned_ids(jobs[j])
            /\ OpenSessions(e) = {}
            /\ staff_clock_in(e, j, c[1], c[2]) )
          => ( /\ resp' = ClockedIn
               /\ Inserted(e, j)
               /\ timeclock'[Len(timeclock')].location_verified = FALSE )]_vars

\* C6 witness: a clock-in has just succeeded unverified on a job that stores
\* coordinates and does not require location.
C6_Witness ==
    /\ resp = ClockedIn
    /\ Len(timeclock) > 0
    /\ LET s == timeclock[Len(timeclock)]
       IN  /\ ~s.location_verified
           /\ s.job_id \in DOMAIN jobs
           /\ ~jobs[s.job_id].require_location
           /\ jobs[s.job_id].latitude # None
           /\ jobs[s.job_id].longitude # None

\* C7: a clock-in by an assigned employee to a job with require_location = true
\* that lacks a stored latitude or longitude is answered MisconfiguredGeofence
\* (400) whatever coordinates the request carries, and creates no session.
C7_MisconfiguredGeofence ==
    [][\A e \in EmployeeIds, j \in SeqJobIds, c \in RequestCoordinates :
          ( /\ Known(e, j)
            /\ e \in assigned_ids(jobs[j])
            /\ jobs[j].require_location
            /\ (jobs[j].latitude = None \/ jobs[j].longitude = None)
            /\ staff_clock_in(e, j, c[1], c[2]) )
          => (resp' = MisconfiguredGeofence /\ timeclock' = timeclock)]_vars

\* C7 witness: a clock-in was refused with MisconfiguredGeofence on a job that
\* requires location and stores a latitude but no longitude.
C7_Witness ==
    /\ resp = MisconfiguredGeofence
    /\ \E j \in DOMAIN jobs :
          /\ jobs[j].require_location
          /\ jobs[j].latitude # None
          /\ jobs[j].longitude = None

\* C8: a clock-in by an assigned employee to a job with require_location = true
\* and stored coordinates, whose request omits latitude or longitude, is
\* answered LocationRequired (400) and creates no session.
C8_LocationRequired ==
    [][\A e \in EmployeeIds, j \in SeqJobIds, c \in RequestCoordinates :
          ( /\ Known(e, j)
            /\ e \in assigned_ids(jobs[j])
            /\ jobs[j].require_location
            /\ jobs[j].latitude # None /\ jobs[j].longitude # None
            /\ (c[1] = None \/ c[2] = None)
            /\ staff_clock_in(e, j, c[1], c[2]) )
          => (resp' = LocationRequiredIn /\ timeclock' = timeclock)]_vars

\* C8 witness: a clock-in was refused with LocationRequired while no session
\* was stored.
C8_Witness ==
    /\ resp = LocationRequiredIn
    /\ timeclock = << >>

\* C9: a clock-in by an assigned employee to a gated job (require_location =
\* true, job and request coordinates present) passes the geofence iff the
\* distance is <= 500 m: at a distance > 500 it is answered OutOfRange (403)
\* with that distance and creates no session; at a distance <= 500, 500
\* included, it is not refused by the geofence, succeeds when the employee has
\* no open session, and any session it creates has location_verified = true.
C9_GeofenceRadius ==
    [][\A e \in EmployeeIds, j \in SeqJobIds, c \in RequestCoordinates :
          ( /\ Known(e, j)
            /\ e \in assigned_ids(jobs[j])
            /\ jobs[j].require_location
            /\ jobs[j].latitude # None /\ jobs[j].longitude # None
            /\ c[1] # None /\ c[2] # None
            /\ staff_clock_in(e, j, c[1], c[2]) )
          => LET distance == haversine_distance(c[1][1], c[2][1],
                                                jobs[j].latitude[1], jobs[j].longitude[1])
             IN  /\ distance > 500
                    => (resp' = OutOfRangeIn(distance) /\ timeclock' = timeclock)
                 /\ distance <= 500
                    => /\ resp' \in {ClockedIn, AlreadyClockedIn}
                       /\ OpenSessions(e) = {} => resp' = ClockedIn
                       /\ resp' = ClockedIn
                          => /\ Inserted(e, j)
                             /\ timeclock'[Len(timeclock')].location_verified = TRUE]_vars

\* C9 witness: a session verified at clock-in is stored, and the request
\* answered last was refused at 501 m.
C9_Witness ==
    /\ resp = OutOfRangeIn(501)
    /\ \E i \in 1..Len(timeclock) : timeclock[i].location_verified

\* C10: a clock-in succeeds, and a session is created, only if the employee is
\* in the job's assigned_employees when the request is served; a request of a
\* stored employee for a stored job that does not list them is answered
\* NotAssigned (403) and creates no session.
C10_OnlyAssignedClockIn ==
    [][\A e \in EmployeeIds, j \in SeqJobIds, c \in RequestCoordinates :
          staff_clock_in(e, j, c[1], c[2])
          => /\ (resp' = ClockedIn \/ timeclock' # timeclock)
                => (Known(e, j) /\ e \in assigned_ids(jobs[j]))
             /\ (Known(e, j) /\ e \notin assigned_ids(jobs[j]))
                => (resp' = NotAssigned /\ timeclock' = timeclock)]_vars

\* C10 witness: a clock-in was refused with NotAssigned although a stored
\* employee has an earlier session for the stored job: they were assigned when
\* they clocked in and have been withdrawn or reassigned since.
C10_Witness ==
    /\ resp = NotAssigned
    /\ \E i \in 1..Len(timeclock) :
          /\ timeclock[i].employee_id \in employees
          /\ timeclock[i].job_id \in DOMAIN jobs
          /\ timeclock[i].employee_id \notin assigned_ids(jobs[timeclock[i].job_id])

\* The job of the open session a clock-out of employee e finds.
OpenSessionJob(e) == timeclock[FindOpenEntry(timeclock, e)].job_id

\* C11: a clock-out of an employee with an open session whose job is stored
\* and has require_location = true ends in a defined outcome, whatever
\* coordinates the job stores and the request carries: LocationRequired when
\* the request omits a coordinate, else OutOfRange or success; never a 500.
C11_ClockOutDefinedOutcome ==
    [][\A e \in EmployeeIds, c \in RequestCoordinates :
          ( /\ OpenSessions(e) # {}
            /\ OpenSessionJob(e) \in DOMAIN jobs
            /\ jobs[OpenSessionJob(e)].require_location
            /\ staff_clock_out(e, c[1], c[2]) )
          => /\ resp'.status # 500
             /\ (c[1] = None \/ c[2] = None) => resp' = LocationRequiredOut
             /\ (c[1] # None /\ c[2] # None)
                => (resp' = ClockedOut \/ (resp'.status = 403 /\ resp'.distance # None))]_vars

\* C12: a clock-out of an employee whose open session refers to a job that is
\* no longer stored succeeds, with or without coordinates, and closes that
\* session at the current time.
C12_ClockOutAfterJobDeleted ==
    [][\A e \in EmployeeIds, c \in RequestCoordinates :
          ( /\ OpenSessions(e) # {}
            /\ OpenSessionJob(e) \notin DOMAIN jobs
            /\ staff_clock_out(e, c[1], c[2]) )
          => /\ resp' = ClockedOut
             /\ Len(timeclock') = Len(timeclock)
             /\ timeclock'[FindOpenEntry(timeclock, e)].clock_out = Some(now)
             /\ \A i \in 1..Len(timeclock) :
                   i # FindOpenEntry(timeclock, e) => timeclock'[i] = timeclock[i]]_vars

\* C12 witness: a clock-out has just succeeded and the session it closed
\* belongs to a job that was deleted before the request, while another
\* employee's session of that job is still open.
C12_Witness ==
    /\ resp = ClockedOut
    /\ \E i, k \in 1..Len(timeclock) :
          /\ timeclock[i].clock_out # None
          /\ timeclock[i].job_id \notin DOMAIN jobs
          /\ timeclock[k].clock_out = None

\* C13: a patrol check-in of a stored employee against a checkpoint that does
\* not exist or whose is_active is false is answered CheckpointNotFound (404)
\* and appends nothing to the patrol ledger.
C13_InactiveCheckpointRefused ==
    [][\A e \in EmployeeIds, id \in CheckpointIds, c \in PatrolCoordinates, q \in BOOLEAN :
          ( /\ e \in employees
            /\ (id \notin 1..Len(checkpoints) \/ ~checkpoints[id].is_active)
            /\ patrol_check_in(e, id, c[1], c[2], q) )
          => (resp' = CheckpointNotFound /\ patrol_checkins' = patrol_checkins)]_vars

\* C14: the check-in a patrol_check_in request records has location_verified
\* = TRUE iff the distance to the checkpoint is <= the checkpoint's
\* radius_meters or scanned_qr is true; it stores that distance, and the
\* verification_status returned is "verified" exactly when location_verified
\* is true, else "unverified".
C14_PatrolVerification ==
    [][\A e \in EmployeeIds, id \in CheckpointIds, c \in PatrolCoordinates, q \in BOOLEAN :
          ( /\ patrol_checkins' # patrol_checkins
            /\ patrol_check_in(e, id, c[1], c[2], q) )
          => LET recorded == patrol_checkins'[Len(patrol_checkins')]
                 distance == haversine_distance(c[1], c[2], checkpoints[id].latitude,
                                                checkpoints[id].longitude)
             IN  /\ Len(patrol_checkins') = Len(patrol_checkins) + 1
                 /\ recorded.checkpoint_id = id
                 /\ recorded.distance_from_checkpoint = distance
                 /\ recorded.location_verified
                       <=> (distance <= checkpoints[id].radius_meters \/ q)
                 /\ body'.check_in = recorded
                 /\ body'.verification_status =
                       (IF recorded.location_verified THEN "verified" ELSE "unverified")]_vars

\* C14 witness: the ledger holds a check-in verified without a scan at a
\* distance equal to the radius, and the check-in just returned was verified
\* by its scan at a distance beyond the radius.
C14_Witness ==
    /\ body.kind = "check_in"
    /\ body.verification_status = "verified"
    /\ body.check_in.scanned_qr
    /\ body.check_in.distance_from_checkpoint
          > checkpoints[body.check_in.checkpoint_id].radius_meters
    /\ \E i \in 1..Len(patrol_checkins) :
          /\ ~patrol_checkins[i].scanned_qr
          /\ patrol_checkins[i].location_verified
          /\ patrol_checkins[i].distance_from_checkpoint = 50

\* C15: no step removes a check-in from the patrol ledger or changes any of
\* its fields other than photos, and photos only grows at its end.
C15_LedgerAppendOnly ==
    [][\A i \in 1..Len(patrol_checkins) :
          /\ Len(patrol_checkins') >= i
          /\ [patrol_checkins'[i] EXCEPT !.photos = << >>]
                = [patrol_checkins[i] EXCEPT !.photos = << >>]
          /\ Len(patrol_checkins'[i].photos) >= Len(patrol_checkins[i].photos)
          /\ SubSeq(patrol_checkins'[i].photos, 1, Len(patrol_checkins[i].photos))
                = patrol_checkins[i].photos]_vars

\* C15 witness: two check-ins are stored, and the first one's photos were
\* added by two requests, the second appending to the first's.
C15_Witness ==
    /\ Len(patrol_checkins) = 2
    /\ patrol_checkins[1].photos = <<"photo1", "photo2">>
    /\ patrol_checkins[2].photos = << >>

\* The instants of the check-ins at checkpoint id.
CheckedAt(id) ==
    {patrol_checkins[i].checked_at :
        i \in {k \in 1..Len(patrol_checkins) : patrol_checkins[k].checkpoint_id = id}}

\* The checkpoints a missed-checkpoints report of scope site_id is to list:
\* active, in scope, and never checked or last checked more than
\* check_frequency_minutes ago.
ExpectedMissed(site_id) ==
    {k \in 1..Len(checkpoints) :
        /\ checkpoints[k].is_active
        /\ site_id # None => checkpoints[k].site_id = site_id
        /\ \A a \in CheckedAt(k) : now - a > checkpoints[k].check_frequency_minutes * 60}

C17_CoverageRate ==
    body.kind = "stats"
    => /\ body.checkpoints_visited <= body.total_checkpoints
       /\ body.coverage_rate \in 0..1000
       /\ body.total_checkpoints = 0 => body.coverage_rate = 0

\* C18: every stored defect has resolved_at set iff it has resolved_by_id set.
C18_ResolutionStampsTogether ==
    \A i \in 1..Len(defects) :
        defects[i].resolved_at # None <=> defects[i].resolved_by_id # None

\* C19: a resolve request for a stored defect, whatever its status and
\* stamps, leaves it with status = resolved, resolved_at = the time of the
\* request and resolved_by_id = the resolver, and leaves the other defects
\* alone; for a defect id that is not stored it is answered NotFound (404)
\* and changes no defect.
C19_Resolve ==
    [][\A id \in DefectIds, e \in EmployeeIds :
          resolve_defect(id, e)
          => IF id \in 1..Len(defects)
             THEN /\ resp'.status = 200
                  /\ Len(defects') = Len(defects)
                  /\ defects'[id].status = "resolved"
                  /\ defects'[id].resolved_at = Some(now)
                  /\ defects'[id].resolved_by_id = Some(e)
                  /\ defects'[id].reported_by_id = defects[id].reported_by_id
                  /\ \A k \in 1..Len(defects) : k # id => defects'[k] = defects[k]
             ELSE resp' = DefectNotFound /\ defects' = defects]_vars

\* C19 witness: at 00:30 a defect stands resolved with the stamps of a resolve
\* request served at 00:30 for a resolver who is not a stored employee.
C19_Witness ==
    /\ now = 1800
    /\ resp = Ok
    /\ \E i \in 1..Len(defects) :
          /\ defects[i].status = "resolved"
          /\ defects[i].resolved_at = Some(1800)
          /\ defects[i].resolved_by_id = Some("e2")
          /\ "e2" \notin employees

\* C20: every stored defect's status is one of open, in_progress, resolved,
\* closed.
C20_StatusInEnum ==
    \A i \in 1..Len(defects) : defects[i].status \in DefectStatus

\* C21: delete_checkpoint of a stored checkpoint keeps the record and sets its
\* is_active to false; get_checkpoint returns a stored checkpoint as it is
\* stored, deactivated or not; the active listing holds exactly the in-scope
\* checkpoints whose is_active is true; and no step removes a checkpoint or
\* changes its id.
C21_SoftDelete ==
    [][/\ Len(checkpoints') >= Len(checkpoints)
       /\ \A k \in 1..Len(checkpoints) : checkpoints'[k].id = checkpoints[k].id
       /\ \A id \in 1..Len(checkpoints) :
             /\ delete_checkpoint(id)
                => /\ Len(checkpoints') = Len(checkpoints)
                   /\ checkpoints'[id] = [checkpoints[id] EXCEPT !.is_active = FALSE]
                   /\ \A k \in 1..Len(checkpoints) : k # id => checkpoints'[k] = checkpoints[k]
             /\ get_checkpoint(id)
                => (resp'.status = 200 /\ body'.checkpoint = checkpoints[id])
       /\ \A site \in Sites :
             get_checkpoints(site, TRUE)
             => /\ \A n \in 1..Len(body'.checkpoints) : body'.checkpoints[n].is_active
                /\ {body'.checkpoints[n].id : n \in 1..Len(body'.checkpoints)}
                      = {k \in 1..Len(checkpoints) :
                            /\ checkpoints[k].is_active
                            /\ site # None => checkpoints[k].site_id = site}]_vars

\* C21 witness: the active listing just returned holds the second checkpoint
\* only, the first one being stored with is_active = false.
C21_Witness ==
    /\ body.kind = "checkpoints"
    /\ Len(checkpoints) = 2
    /\ ~checkpoints[1].is_active
    /\ checkpoints[2].is_active
    /\ Len(body.checkpoints) = 1
    /\ body.checkpoints[1] = checkpoints[2]

\* C22: every stored checkpoint has radius_meters > 0 and
\* check_frequency_minutes > 0.
C22_PositiveRadiusAndFrequency ==
    \A k \in 1..Len(checkpoints) :
        checkpoints[k].radius_meters > 0 /\ checkpoints[k].check_frequency_minutes > 0

\* C27: after a successful clock-out of an employee the status query for that
\* employee reports is_clocked_in = false.
C27_NotClockedInAfterClockOut ==
    [][\A e \in EmployeeIds :
          (resp' = ClockedOut /\ staff_clock_out(e, None, None))
          => ~is_clocked_in(timeclock', e)]_vars

\* C28: a clock-in request answered anything but success leaves the timeclock
\* collection and the jobs as they were, and a successful one leaves the jobs
\* as they were and inserts exactly one session.
C28_RejectedClockInWritesNothing ==
    [][\A e \in EmployeeIds, j \in SeqJobIds, c \in RequestCoordinates :
          /\ (resp' # ClockedIn /\ (timeclock' # timeclock \/ jobs' # jobs))
             => ~staff_clock_in(e, j, c[1], c[2])
          /\ (resp' = ClockedIn /\ staff_clock_in(e, j, c[1], c[2]))
             => (Inserted(e, j) /\ jobs' = jobs)]_vars

\* C28 witness: a clock-in has just been refused with AlreadyClockedIn, the
\* one session stored being the open one that caused the refusal.
C28_Witness ==
    /\ resp = AlreadyClockedIn
    /\ Len(timeclock) = 1
    /\ timeclock[1].clock_out = None

\* C23: the invoice statistics add up for every reachable set of invoices,
\* whatever statuses they hold after create, update, send, mark-paid and the
\* overdue sweep: total_paid + total_pending + total_overdue = total_invoiced.
C23_StatsAddUp ==
    body.kind = "invoice_stats" =>
        body.total_paid + body.total_pending + body.total_overdue = body.total_invoiced

\* C24: for every stored invoice, after any create and update requests with
\* any combination of fields: subtotal is the sum of quantity x unit_price over
\* its items, tax_amount = subtotal x tax_rate / 100 and total_amount =
\* subtotal + tax_amount (pence; quantities in hundredths).
C24_AmountsAgree ==
    \A k \in 1..Len(invoices) :
        /\ invoices[k].subtotal * 100 = Subtotal(invoices[k].items)
        /\ invoices[k].tax_amount * 100 = invoices[k].subtotal * invoices[k].tax_rate
        /\ invoices[k].total_amount = invoices[k].subtotal + invoices[k].tax_amount

\* C25: after any sequence of create-invoice, generate-invoice-from-job and
\* delete-invoice requests, no two stored invoices share an invoice_number.
C25_InvoiceNumbersUnique ==
    \A i, k \in 1..Len(invoices) :
        i # k => invoices[i].invoice_number # invoices[k].invoice_number

\* C26: send-invoice sets the status to sent only when the dispatch succeeded
\* (and then it does); when the dispatch fails it answers 500 and the invoice
\* is unchanged; for a missing client_email it answers 400 and for an unknown
\* id 404, and nothing changes either.
C26_SentOnlyWhenDispatched ==
    [][\A i \in InvoiceIds, result \in DispatchResults :
          send_invoice(i, result) =>
              LET invoice == FindInvoice(i)
              IN  /\ invoice = None => (resp'.status = 404 /\ invoices' = invoices)
                  /\ (invoice # None /\ NoClientEmail(invoice[1]))
                     => (resp'.status = 400 /\ invoices' = invoices)
                  /\ (invoice # None /\ ~NoClientEmail(invoice[1]) /\ ~result.success)
                     => (resp'.status = 500 /\ invoices' = invoices)
                  /\ (invoice # None /\ ~NoClientEmail(invoice[1]) /\ result.success)
                     => (resp' = InvoiceSent /\ FindInvoice(i)'[1].status = "sent")
                  /\ invoices' # invoices
                     => (result.success /\ invoices' = SetInvoice(i, [status |-> "sent"]))]_vars

\* A dispatch has failed for a draft invoice that has a client address: the
\* answer is the 500 and the invoice is still a draft.
C26_Witness ==
    /\ resp = FailedToSend
    /\ \E k \in 1..Len(invoices) :
          invoices[k].status = "draft" /\ ~NoClientEmail(invoices[k])

\* C29: after any interleaving of concurrent signup and withdraw requests on a
\* job, its assigned_employees never holds the same employee twice and never
\* more than staff_required entries.
C29_NoDuplicateNoOverfill ==
    \A j \in DOMAIN jobs :
        /\ \A i, k \in 1..Len(jobs[j].assigned_employees) :
              i # k => jobs[j].assigned_employees[i] # jobs[j].assigned_employees[k]
        /\ Len(jobs[j].assigned_employees) <= jobs[j].staff_required

\* C30: after change-password answers 'Password changed successfully' for an
\* account (the admin, a user of the users collection or an employee), a login
\* with the account's email and the new password succeeds, and a login with
\* the old password is rejected with 401.
C30_NewPasswordTakesEffect ==
    [][\A a \in AccountIds, current_password \in Passwords, new_password \in Passwords :
          ( /\ resp' = PasswordChanged
            /\ \/ change_password(a, current_password, new_password)
               \/ staff_change_password(a, current_password, new_password) )
          => /\ LoginOutcome(EmailOf[a], new_password, employees', password_hash')
                    = LoginSuccessful
             /\ current_password # new_password
                => LoginOutcome(EmailOf[a], current_password, employees', password_hash')
                       = InvalidLogin]_vars

====
